---- MODULE Spec2Model ----
(***************************************************************************)
(* CSVStatsVisualizer (stats-poll): a browser page that reads a CSV file,  *)
(* classifies its columns, filters rows by a date range and draws the      *)
(* distribution of one numeric column with its average and median.         *)
(*                                                                         *)
(* Strings are sequences of one-character strings, so that the tokenizer,  *)
(* String.prototype.trim/split, parseFloat, Number() and the date regular  *)
(* expression are computed character by character as the code does.        *)
(* A JavaScript number is an exact rational [k, n, d] (k = "num") or one   *)
(* of NaN, Infinity, -Infinity.  null/undefined is the empty tuple <<>>    *)
(* and a present object x is <<x>>.                                        *)
(***************************************************************************)
EXTENDS Integers, Sequences, FiniteSets, Bags, TLC

VARIABLES
    csvData,     \* this.csvData: <<>> (null) or <<[headers, data]>>
    dateColumn,  \* this.dateColumn: <<>> (null) or <<header name>>
    chart,       \* this.chart: <<>> (null) or <<the live Chart's record>>
    dateFrom,    \* document.getElementById("dateFrom").value
    dateTo,      \* document.getElementById("dateTo").value
    options,     \* the option values of #columnSelect after the placeholder
    selected,    \* document.getElementById("columnSelect").value
    reads,       \* the texts of the files being read by a FileReader: a bag
    lastFile,    \* history: <<>> or <<text>> of the most recently selected file
    loaded,      \* history: <<>> or <<text>> that parseCSV was last called with
    liveCharts,  \* history: Chart instances created and not yet destroyed
    renderedFrom,\* history: the dataset the chart of this.chart was computed from
    arg,         \* argument of the function applied (function specifications)
    ret          \* its result, <<>> before the call

vars == <<csvData, dateColumn, chart, dateFrom, dateTo, options, selected,
          reads, lastFile, loaded, liveCharts, renderedFrom, arg, ret>>

(***************************************************************************)
(* Bounds of the model.                                                    *)
(***************************************************************************)
MaxLineLen == 5      \* characters of a line given to parseCSVLine
MaxValues == 4       \* length of a list given to getDistribution
MaxDataRows == 3     \* data lines of a file of SequenceFiles
MaxClassifyRows == 6 \* data lines of a file of ClassifyFiles
MaxPending == 2      \* FileReaders reading at the same time

(***************************************************************************)
(* Generic helpers.                                                        *)
(***************************************************************************)
None == <<>>
Some(x) == <<x>>

RECURSIVE SeqsUpTo(_, _)
SeqsUpTo(S, n) ==
    IF n = 0 THEN {<<>>}
    ELSE LET shorter == SeqsUpTo(S, n - 1)
         IN  shorter \cup {Append(s, c) : s \in {t \in shorter : Len(t) = n - 1}, c \in S}

RECURSIVE Concat(_)
Concat(ss) == IF ss = <<>> THEN <<>> ELSE Head(ss) \o Concat(Tail(ss))

CountOf(s, c) == Cardinality({i \in 1..Len(s) : s[i] = c})

(***************************************************************************)
(* String.prototype.trim and String.prototype.split("\n").                 *)
(***************************************************************************)
WhiteSpace == {" ", "\t", "\n", "\r"}

RECURSIVE TrimStart(_)
TrimStart(s) ==
    IF s # <<>> /\ Head(s) \in WhiteSpace THEN TrimStart(Tail(s)) ELSE s

RECURSIVE TrimEnd(_)
TrimEnd(s) ==
    IF s # <<>> /\ s[Len(s)] \in WhiteSpace
    THEN TrimEnd(SubSeq(s, 1, Len(s) - 1)) ELSE s

Trim(s) == TrimEnd(TrimStart(s))

RECURSIVE SplitFrom(_, _, _)
\* the pieces of s from position i on: up to the next separator, and on
\* from behind it
SplitFrom(s, sep, i) ==
    LET found == {j \in i..Len(s) : s[j] = sep}
    IN  IF found = {} THEN <<SubSeq(s, i, Len(s))>>
        ELSE LET next == CHOOSE j \in found : \A k \in found : j <= k
             IN  <<SubSeq(s, i, next - 1)>> \o SplitFrom(s, sep, next + 1)

Split(s, sep) == SplitFrom(s, sep, 1)

(***************************************************************************)
(* parseCSVLine: the quoted-field tokenizer.                               *)
(***************************************************************************)
RECURSIVE parseCSVLineFrom(_, _, _, _, _)
\* (the test reads Len(current) and Len(result) so that TLC evaluates the
\* two accumulators at every character instead of nesting them)
parseCSVLineFrom(line, i, result, current, inQuotes) ==
    IF i > Len(line) \/ Len(current) + Len(result) < 0
    THEN Append(result, Trim(current))
    ELSE LET char == line[i]
         IN  IF char = "\""
             THEN parseCSVLineFrom(line, i + 1, result, current, ~inQuotes)
             ELSE IF char = "," /\ ~inQuotes
             THEN parseCSVLineFrom(line, i + 1, Append(result, Trim(current)),
                                   <<>>, inQuotes)
             ELSE parseCSVLineFrom(line, i + 1, result, Append(current, char),
                                   inQuotes)

\* A tokenizer that forgets the quote state: splits at every comma.

parseCSVLineNoQuoteState(line) ==
    LET parts == Split(SelectSeq(line, LAMBDA c : c # "\""), ",")
    IN  [k \in 1..Len(parts) |-> Trim(parts[k])]

parseCSVLine(line) == parseCSVLineFrom(line, 1, <<>>, <<>>, FALSE)

(***************************************************************************)
(* JavaScript numbers: exact rationals n/d in lowest terms with d > 0, and *)
(* NaN, Infinity, -Infinity.  (Sums and quotients are exact; the rounding  *)
(* of IEEE doubles is not modelled.)                                       *)
(***************************************************************************)
RECURSIVE Gcd(_, _)
Gcd(a, b) == IF b = 0 THEN a ELSE Gcd(b, a % b)

Abs(a) == IF a < 0 THEN -a ELSE a

Rat(n, d) ==
    LET g == Gcd(Abs(n), Abs(d))
        s == IF d < 0 THEN -1 ELSE 1
    IN  [k |-> "num", n |-> (s * n) \div g, d |-> (s * d) \div g]

Num(i) == [k |-> "num", n |-> i, d |-> 1]
NaN == [k |-> "NaN", n |-> 0, d |-> 1]
Infinity == [k |-> "Infinity", n |-> 1, d |-> 1]
NegInfinity == [k |-> "Infinity", n |-> -1, d |-> 1]

isNaN(v) == v.k = "NaN"
isFiniteNumber(v) == v.k = "num"

Plus(a, b) == Rat(a.n * b.d + b.n * a.d, a.d * b.d)
DividedBy(a, b) == Rat(a.n * b.d, a.d * b.n)
\* a < b, a <= b on finite numbers
Less(a, b) == a.n * b.d < b.n * a.d
LessEq(a, b) == a.n * b.d <= b.n * a.d

(***************************************************************************)
(* parseFloat(string) and Number(string) on the characters the model's     *)
(* cells are made of: white space, sign, decimal digits, the decimal       *)
(* point, "Infinity", and letters that belong to no numeric literal (an    *)
(* exponent or a 0x prefix occurs in no cell of the model).                *)
(***************************************************************************)
Digits == {"0", "1", "2", "3", "4", "5", "6", "7", "8", "9"}

DigitValue(c) ==
    CASE c = "0" -> 0 [] c = "1" -> 1 [] c = "2" -> 2 [] c = "3" -> 3
      [] c = "4" -> 4 [] c = "5" -> 5 [] c = "6" -> 6 [] c = "7" -> 7
      [] c = "8" -> 8 [] c = "9" -> 9

RECURSIVE DigitRun(_)
\* the longest prefix of s made of decimal digits
DigitRun(s) ==
    IF s # <<>> /\ Head(s) \in Digits THEN <<Head(s)>> \o DigitRun(Tail(s))
    ELSE <<>>

RECURSIVE DigitsValue(_)
DigitsValue(ds) ==
    IF ds = <<>> THEN 0
    ELSE 10 * DigitsValue(SubSeq(ds, 1, Len(ds) - 1)) + DigitValue(ds[Len(ds)])

RECURSIVE Pow10(_)
Pow10(e) == IF e = 0 THEN 1 ELSE 10 * Pow10(e - 1)

Drop(s, n) == SubSeq(s, n + 1, Len(s))
StartsWith(s, p) == Len(s) >= Len(p) /\ SubSeq(s, 1, Len(p)) = p

InfinityWord == <<"I", "n", "f", "i", "n", "i", "t", "y">>

\* The longest prefix of s that is an unsigned StrDecimalLiteral:
\* [len |-> its length (0: none), value |-> its value].
DecimalPrefix(s) ==
    LET int  == DigitRun(s)
        rest == Drop(s, Len(int))
        frac == IF rest # <<>> /\ Head(rest) = "." THEN DigitRun(Tail(rest))
                ELSE <<>>
        dot  == IF rest # <<>> /\ Head(rest) = "." /\ (int # <<>> \/ frac # <<>>)
                THEN 1 ELSE 0
    IN  IF StartsWith(s, InfinityWord)
        THEN [len |-> Len(InfinityWord), value |-> Infinity]
        ELSE IF int = <<>> /\ frac = <<>>
        THEN [len |-> 0, value |-> NaN]
        ELSE [len |-> Len(int) + dot + Len(frac),
              value |-> Rat(DigitsValue(int) * Pow10(Len(frac)) + DigitsValue(frac),
                            Pow10(Len(frac)))]

Negate(v) == [v EXCEPT !.n = -v.n]

\* [len, value] of the longest signed numeric prefix of s.
SignedPrefix(s) ==
    IF s # <<>> /\ Head(s) \in {"+", "-"}
    THEN LET p == DecimalPrefix(Tail(s))
         IN  IF p.len = 0 THEN p
             ELSE [len |-> p.len + 1,
                   value |-> IF Head(s) = "-" THEN Negate(p.value) ELSE p.value]
    ELSE DecimalPrefix(s)

\* parseFloat(x): x is <<>> for undefined, <<string>> otherwise.
parseFloat(x) ==
    IF x = None THEN NaN ELSE SignedPrefix(TrimStart(x[1])).value

\* Number(string): the whole trimmed string must be a numeric literal.
ToNumber(str) ==
    LET t == Trim(str)
        p == SignedPrefix(t)
    IN  IF t = <<>> THEN Num(0)
        ELSE IF p.len = Len(t) THEN p.value ELSE NaN

\* the global isFinite(val) applied to a string: Number(val) is finite
isFinite(str) == isFiniteNumber(ToNumber(str))

(***************************************************************************)
(* calculateStats and getDistribution.                                     *)
(***************************************************************************)
RECURSIVE Sum(_)
\* values.reduce((acc, val) => acc + val, 0)
Sum(values) ==
    IF values = <<>> THEN Num(0)
    ELSE Plus(Sum(SubSeq(values, 1, Len(values) - 1)), values[Len(values)])

RECURSIVE InsertSorted(_, _)
InsertSorted(sorted, v) ==
    IF sorted = <<>> THEN <<v>>
    ELSE IF Less(v, Head(sorted)) THEN <<v>> \o sorted
    ELSE <<Head(sorted)>> \o InsertSorted(Tail(sorted), v)

RECURSIVE SortAscending(_)
\* [...values].sort((a, b) => a - b): a stable ascending sort
SortAscending(values) ==
    IF values = <<>> THEN <<>>
    ELSE InsertSorted(SortAscending(SubSeq(values, 1, Len(values) - 1)),
                      values[Len(values)])

\* calculateStats that sorts the array it was given instead of a copy
calculateStatsSortInPlace(values) ==
    IF Len(values) = 0
    THEN [average |-> Num(0), median |-> Num(0), values |-> values]
    ELSE LET sorted == SortAscending(values)
             half   == Len(sorted) \div 2
         IN  [average |-> DividedBy(Sum(values), Num(Len(values))),
              median  |-> IF Len(sorted) % 2 = 0
                          THEN DividedBy(Plus(sorted[half], sorted[half + 1]), Num(2))
                          ELSE sorted[half + 1],
              values  |-> sorted]

\* calculateStats(values): {average, median}, and the caller's array as the
\* call leaves it (the sort works on a copy, [...values]).
calculateStats(values) ==
    IF Len(values) = 0
    THEN [average |-> Num(0), median |-> Num(0), values |-> values]
    ELSE LET sum     == Sum(values)
             average == DividedBy(sum, Num(Len(values)))
             sorted  == SortAscending(values)
             \* 0-based sorted[length / 2 - 1], sorted[length / 2] and
             \* sorted[Math.floor(length / 2)]
             half    == Len(sorted) \div 2
             median  == IF Len(sorted) % 2 = 0
                        THEN DividedBy(Plus(sorted[half], sorted[half + 1]), Num(2))
                        ELSE sorted[half + 1]
         IN  [average |-> average, median |-> median, values |-> values]

\* an update that overwrites the count instead of adding to it
CountIntoOverwrite(distribution, val) ==
    [v \in DOMAIN distribution \cup {val} |->
        IF v = val THEN 1 ELSE distribution[v]]

\* distribution[val] = (distribution[val] || 0) + 1
CountInto(distribution, val) ==
    IF val \in DOMAIN distribution
    THEN [distribution EXCEPT ![val] = @ + 1]
    ELSE [v \in DOMAIN distribution \cup {val} |->
            IF v = val THEN 0 + 1 ELSE distribution[v]]

EmptyDistribution == [v \in {} |-> 0]

RECURSIVE getDistribution(_)
\* The keys of the object are String(val); String is injective on numbers,
\* so the distribution is keyed by the number itself.
getDistribution(values) ==
    IF values = <<>> THEN EmptyDistribution
    ELSE CountInto(getDistribution(SubSeq(values, 1, Len(values) - 1)),
                   values[Len(values)])

(***************************************************************************)
(* Date: a Date object is its local time value, kept as the day number    *)
(* since 1970-01-01 and the milliseconds into that day (the time value is  *)
(* 86400000 * day + ms; daylight saving shifts are not modelled).         *)
(***************************************************************************)
\* days since 1970-01-01 of the proleptic Gregorian date y-m-d (m in 1..12)
DaysFromCivil(y, m, d) ==
    LET yy  == IF m <= 2 THEN y - 1 ELSE y
        era == yy \div 400
        yoe == yy - era * 400
        mp  == IF m > 2 THEN m - 3 ELSE m + 9
        doy == (153 * mp + 2) \div 5 + d - 1
        doe == yoe * 365 + yoe \div 4 - yoe \div 100 + doy
    IN  era * 146097 + doe - 719468

\* [year, month (1..12), day] of the day number z
CivilFromDays(z) ==
    LET zz  == z + 719468
        era == zz \div 146097
        doe == zz - era * 146097
        yoe == (doe - doe \div 1460 + doe \div 36524 - doe \div 146096) \div 365
        doy == doe - (365 * yoe + yoe \div 4 - yoe \div 100)
        mp  == (5 * doy + 2) \div 153
        d   == doy - (153 * mp + 2) \div 5 + 1
        m   == IF mp < 10 THEN mp + 3 ELSE mp - 9
    IN  [year |-> yoe + era * 400 + (IF m <= 2 THEN 1 ELSE 0), month |-> m, day |-> d]

\* new Date(year, monthIndex, day): a year in 0..99 means 1900 + year, and a
\* month index or a day outside its range carries into the next unit.
NewDate(year, monthIndex, day) ==
    LET fullYear == IF year >= 0 /\ year <= 99 THEN 1900 + year ELSE year
        ym       == fullYear + monthIndex \div 12
        mn       == monthIndex % 12
    IN  [day |-> DaysFromCivil(ym, mn + 1, 1) + day - 1, ms |-> 0]

getFullYear(date) == CivilFromDays(date.day).year
getMonth(date) == CivilFromDays(date.day).month - 1
getDate(date) == CivilFromDays(date.day).day

\* date.setHours(23, 59, 59, 999)
SetHoursEndOfDay(date) ==
    [date EXCEPT !.ms = ((23 * 60 + 59) * 60 + 59) * 1000 + 999]

\* a < b and a <= b on the time values of two Dates
DateLess(a, b) == a.day < b.day \/ (a.day = b.day /\ a.ms < b.ms)
DateLessEq(a, b) == a.day < b.day \/ (a.day = b.day /\ a.ms <= b.ms)

(***************************************************************************)
(* parseDate: the first match of /(\d{1,2})\.(\d{1,2})\.(\d{4})/ in the    *)
(* string without its quote characters.                                    *)
(***************************************************************************)
\* s has n decimal digits at positions i .. i + n - 1
HasDigits(s, i, n) ==
    /\ i + n - 1 <= Len(s)
    /\ \A j \in i..(i + n - 1) : s[j] \in Digits

HasDot(s, i) == i <= Len(s) /\ s[i] = "."

\* The match of the regular expression that starts at position i, if any:
\* each \d{1,2} takes two digits when the rest then matches, else one.
MatchAt(s, i) ==
    LET try(n1, n2) ==
            /\ HasDigits(s, i, n1)
            /\ HasDot(s, i + n1)
            /\ HasDigits(s, i + n1 + 1, n2)
            /\ HasDot(s, i + n1 + 1 + n2)
            /\ HasDigits(s, i + n1 + n2 + 2, 4)
        groups(n1, n2) ==
            [day   |-> SubSeq(s, i, i + n1 - 1),
             month |-> SubSeq(s, i + n1 + 1, i + n1 + n2),
             year  |-> SubSeq(s, i + n1 + n2 + 2, i + n1 + n2 + 5)]
    IN  IF try(2, 2) THEN Some(groups(2, 2))
        ELSE IF try(2, 1) THEN Some(groups(2, 1))
        ELSE IF try(1, 2) THEN Some(groups(1, 2))
        ELSE IF try(1, 1) THEN Some(groups(1, 1))
        ELSE None

RECURSIVE MatchFrom(_, _)
\* String.prototype.match without the g flag: the leftmost match
MatchFrom(s, i) ==
    IF i > Len(s) THEN None
    ELSE IF MatchAt(s, i) # None THEN MatchAt(s, i)
    ELSE MatchFrom(s, i + 1)

\* dateString.replace(/['"]/g, "")
RemoveQuotes(s) == SelectSeq(s, LAMBDA c : c \notin {"'", "\""})

\* parseDate that passes the month to Date as it is written (1-based)
parseDateMonthNotShifted(x) ==
    IF x = None \/ x = Some(<<>>) THEN None
    ELSE LET match == MatchFrom(RemoveQuotes(x[1]), 1)
         IN  IF match # None
             THEN Some(NewDate(DigitsValue(match[1].year),
                               DigitsValue(match[1].month),
                               DigitsValue(match[1].day)))
             ELSE None

\* parseDate(x): x is <<>> for undefined, <<string>> otherwise; the result is
\* <<>> for null, <<time value>> otherwise.
parseDate(x) ==
    IF x = None \/ x = Some(<<>>) THEN None
    ELSE LET cleanDateString == RemoveQuotes(x[1])
             match == MatchFrom(cleanDateString, 1)
         IN  IF match # None
             THEN Some(NewDate(DigitsValue(match[1].year),
                               DigitsValue(match[1].month) - 1,
                               DigitsValue(match[1].day)))
             ELSE None

(***************************************************************************)
(* parseCSV: the dataset {headers, data} of a CSV text.                    *)
(***************************************************************************)
Range(seq) == {seq[i] : i \in 1..Len(seq)}

\* row[key]: <<>> for undefined, <<string>> otherwise
Lookup(row, key) == IF key \in DOMAIN row THEN Some(row[key]) ELSE None

\* headers.forEach((header, index) => { row[header] = values[index] || "" }):
\* of two equal headers the later one's assignment stays
MakeRow(headers, values) ==
    [header \in Range(headers) |->
        LET index == CHOOSE j \in 1..Len(headers) :
                        /\ headers[j] = header
                        /\ \A k \in (j + 1)..Len(headers) : headers[k] # header
        IN  IF index <= Len(values) /\ values[index] # <<>>
            THEN values[index] ELSE <<>>]

\* a parser that takes the text's lines without trimming the text first
ParseCSVTextUntrimmed(csvText) ==
    LET lines   == Split(csvText, "\n")
        headers == parseCSVLine(lines[1])
    IN  [headers |-> headers,
         data    |-> [i \in 1..(Len(lines) - 1) |->
                         MakeRow(headers, parseCSVLine(lines[i + 1]))]]

\* the {headers, data} parseCSV assigns to this.csvData
ParseCSVText(csvText) ==
    LET lines   == Split(Trim(csvText), "\n")
        headers == parseCSVLine(lines[1])
    IN  [headers |-> headers,
         data    |-> [i \in 1..(Len(lines) - 1) |->
                         MakeRow(headers, parseCSVLine(lines[i + 1]))]]

(***************************************************************************)
(* detectDateColumn.                                                       *)
(***************************************************************************)
dateColumnNames ==
    <<<<"d", "a", "t", "e">>, <<"D", "a", "t", "e">>, <<"D", "a", "t", "u", "m">>, <<"d", "a", "t", "u", "m">>,
      <<"D", "a", "t", "u", "m", " ", "&", " ", "Z", "e", "i", "t">>,
      <<"d", "a", "t", "u", "m", " ", "&", " ", "z", "e", "i", "t">>>>

\* this.dateColumn after detectDateColumn: the first name of the list the
\* headers include; without one, this.dateColumn keeps the value it had.
detectDateColumn(headers, oldDateColumn) ==
    LET found == {i \in 1..Len(dateColumnNames) : dateColumnNames[i] \in Range(headers)}
    IN  IF found = {} THEN oldDateColumn
        ELSE Some(dateColumnNames[CHOOSE i \in found : \A j \in found : i <= j])

(***************************************************************************)
(* formatDateForInput and the reading of the from/to inputs.               *)
(***************************************************************************)
DigitChar(v) ==
    CASE v = 0 -> "0" [] v = 1 -> "1" [] v = 2 -> "2" [] v = 3 -> "3"
      [] v = 4 -> "4" [] v = 5 -> "5" [] v = 6 -> "6" [] v = 7 -> "7"
      [] v = 8 -> "8" [] v = 9 -> "9"

RECURSIVE NatToString(_)
\* String(n) for an integer n >= 0
NatToString(n) ==
    IF n < 10 THEN <<DigitChar(n)>>
    ELSE Append(NatToString(n \div 10), DigitChar(n % 10))

\* str.padStart(2, "0")
PadStart2(str) == IF Len(str) < 2 THEN <<"0">> \o str ELSE str

\* formatDateForInput that writes the month index instead of the month
formatDateForInputMonthIndex(date) ==
    LET year  == getFullYear(date)
        month == PadStart2(NatToString(getMonth(date)))
        day   == PadStart2(NatToString(getDate(date)))
    IN  NatToString(year) \o <<"-">> \o month \o <<"-">> \o day

\* formatDateForInput(date): YYYY-MM-DD of the date's calendar day
formatDateForInput(date) ==
    LET year  == getFullYear(date)
        month == PadStart2(NatToString(getMonth(date) + 1))
        day   == PadStart2(NatToString(getDate(date)))
    IN  NatToString(year) \o <<"-">> \o month \o <<"-">> \o day

\* parseInt(parts[i]): <<>> for NaN (no such part, or no leading digits)
parseIntPart(parts, i) ==
    IF i > Len(parts) THEN None
    ELSE LET digits == DigitRun(TrimStart(parts[i]))
         IN  IF digits = <<>> THEN None ELSE Some(DigitsValue(digits))

\* new Date(parseInt(parts[0]), parseInt(parts[1]) - 1, parseInt(parts[2]))
\* of an input value: <<>> for an Invalid Date
InputDate(value) ==
    LET parts == Split(value, "-")
        y == parseIntPart(parts, 1)
        m == parseIntPart(parts, 2)
        d == parseIntPart(parts, 3)
    IN  IF y = None \/ m = None \/ d = None THEN None
        ELSE Some(NewDate(y[1], m[1] - 1, d[1]))

(***************************************************************************)
(* getFilteredData, isNumericColumn, getNumericValues.  Each reads         *)
(* this.csvData, this.dateColumn and the two inputs; they are parameters   *)
(* here because parseCSV calls populateColumnSelect between its            *)
(* assignments.                                                            *)
(***************************************************************************)
\* the row filter with the from bound exclusive
RowInRangeFromExclusive(row, dc, fromDate, toDate) ==
    LET rowDate == parseDate(Lookup(row, dc))
    IN  /\ rowDate # None
        /\ fromDate # None /\ toDate # None
        /\ DateLess(fromDate[1], rowDate[1])
        /\ DateLessEq(rowDate[1], toDate[1])

\* the callback of this.csvData.data.filter: a comparison with an Invalid
\* Date is false
RowInRange(row, dc, fromDate, toDate) ==
    LET rowDate == parseDate(Lookup(row, dc))
    IN  /\ rowDate # None
        /\ fromDate # None /\ toDate # None
        /\ DateLessEq(fromDate[1], rowDate[1])
        /\ DateLessEq(rowDate[1], toDate[1])

getFilteredDataOf(data, dc, from, to) ==
    IF dc = None THEN data
    ELSE IF from = <<>> \/ to = <<>> THEN data
    ELSE LET fromDate == InputDate(from)
             toDate   == IF InputDate(to) = None THEN None
                         ELSE Some(SetHoursEndOfDay(InputDate(to)[1]))
         IN  SelectSeq(data, LAMBDA row : RowInRange(row, dc[1], fromDate, toDate))

\* val !== "" && val !== "-" && val !== null && val !== undefined
IsNonEmptyValue(val) == val # None /\ val[1] # <<>> /\ val[1] # <<"-">>

\* !isNaN(parseFloat(val)) && isFinite(val)
IsNumericValue(val) == ~isNaN(parseFloat(val)) /\ isFinite(val[1])

\* a threshold passed only above 80%
MoreThan80Percent(numericCount, length) == numericCount * 10 > 8 * length

\* numericCount / values.length >= 0.8
AtLeast80Percent(numericCount, length) == numericCount * 10 >= 8 * length

isNumericColumnOf(csv, dc, from, to, columnName) ==
    IF csv = None THEN FALSE
    ELSE LET filteredData == getFilteredDataOf(csv[1].data, dc, from, to)
             cells  == [i \in 1..Len(filteredData) |-> Lookup(filteredData[i], columnName)]
             values == SelectSeq(cells, IsNonEmptyValue)
         IN  IF Len(values) = 0 THEN FALSE
             ELSE AtLeast80Percent(Len(SelectSeq(values, IsNumericValue)), Len(values))

\* the values populateColumnSelect appends after the placeholder option
NumericHeaders(csv, dc, from, to) ==
    SelectSeq(csv[1].headers, LAMBDA header : isNumericColumnOf(csv, dc, from, to, header))

\* a filter that lets every parsed cell through
IsAnyValue(val) == TRUE

\* .filter((val) => !isNaN(val) && isFinite(val)) on numbers
IsFiniteValue(val) == ~isNaN(val) /\ isFiniteNumber(val)

getNumericValuesOf(csv, dc, from, to, columnName) ==
    LET filteredData == getFilteredDataOf(csv[1].data, dc, from, to)
        parsed == [i \in 1..Len(filteredData) |->
                      parseFloat(Lookup(filteredData[i], columnName))]
    IN  SelectSeq(parsed, IsFiniteValue)

(***************************************************************************)
(* renderChart: the Chart it creates, as the record of what it was drawn   *)
(* from.                                                                   *)
(***************************************************************************)
\* Math.min(...values), Math.max(...values) of finite numbers
MathMin(values) ==
    IF values = <<>> THEN Infinity
    ELSE CHOOSE v \in Range(values) : \A w \in Range(values) : LessEq(v, w)

MathMax(values) ==
    IF values = <<>> THEN NegInfinity
    ELSE CHOOSE v \in Range(values) : \A w \in Range(values) : LessEq(w, v)

RECURSIVE LabelsFrom(_, _)
\* for (let i = rangeMin; i <= rangeMax; i++) fixedLabels.push(i.toString())
LabelsFrom(i, rangeMax) ==
    IF LessEq(i, rangeMax) THEN <<i>> \o LabelsFrom(Plus(i, Num(1)), rangeMax)
    ELSE <<>>

\* distribution[label] || 0
CountAt(distribution, label) ==
    IF label \in DOMAIN distribution THEN distribution[label] ELSE 0

RenderedChart(columnName, values) ==
    LET stats        == calculateStats(values)
        after        == stats.values
        distribution == getDistribution(after)
        dataMin      == MathMin(after)
        dataMax      == MathMax(after)
        rangeMin     == IF isFiniteNumber(dataMin) /\ Less(dataMin, Num(1))
                        THEN dataMin ELSE Num(1)
        rangeMax     == IF isFiniteNumber(dataMax) /\ Less(Num(10), dataMax)
                        THEN dataMax ELSE Num(10)
        fixedLabels  == LabelsFrom(rangeMin, rangeMax)
    IN  [column       |-> columnName,
         values       |-> after,
         average      |-> stats.average,
         median       |-> stats.median,
         distribution |-> distribution,
         labels       |-> fixedLabels,
         data         |-> [i \in 1..Len(fixedLabels) |->
                              CountAt(distribution, fixedLabels[i])]]

(***************************************************************************)
(* The Visualizer after construction.                                      *)
(***************************************************************************)
VisualizerInit ==
    /\ csvData = None
    /\ dateColumn = None
    /\ chart = None
    /\ dateFrom = <<>>
    /\ dateTo = <<>>
    /\ options = <<>>
    /\ selected = <<>>
    /\ reads = EmptyBag
    /\ lastFile = None
    /\ loaded = None
    /\ liveCharts = 0
    /\ renderedFrom = None

visualizerVars == <<csvData, dateColumn, chart, dateFrom, dateTo, options,
                    selected, reads, lastFile, loaded, liveCharts, renderedFrom>>

\* the live Chart instances after renderChart's
\* if (this.chart) { this.chart.destroy() } without the destroy
KeepExisting(handle, live) == live

\* the live Chart instances after if (this.chart) { this.chart.destroy() }
DestroyExisting(handle, live) == IF handle # None THEN live - 1 ELSE live

\* renderChart(columnName), given the values getNumericValues returns: the
\* existing chart is destroyed and a new Chart is created
renderChart(columnName, values) ==
    /\ chart' = Some(RenderedChart(columnName, values))
    /\ liveCharts' = DestroyExisting(chart, liveCharts) + 1
    /\ renderedFrom' = csvData

\* hideChart()
hideChart ==
    /\ chart' = None
    /\ liveCharts' = DestroyExisting(chart, liveCharts)
    /\ renderedFrom' = None

\* the state the functions read
getFilteredData == getFilteredDataOf(csvData[1].data, dateColumn, dateFrom, dateTo)
isNumericColumn(columnName) ==
    isNumericColumnOf(csvData, dateColumn, dateFrom, dateTo, columnName)
getNumericValues(columnName) ==
    getNumericValuesOf(csvData, dateColumn, dateFrom, dateTo, columnName)

(***************************************************************************)
(* The event handlers.                                                     *)
(***************************************************************************)
\* handleFileSelect(file) (from the file input, or from handleDrop): a new
\* FileReader starts reading the file.
handleFileSelect(text) ==
    /\ BagCardinality(reads) < MaxPending
    /\ reads' = reads (+) SetToBag({text})
    /\ lastFile' = Some(text)
    /\ UNCHANGED <<csvData, dateColumn, chart, dateFrom, dateTo, options,
                   selected, loaded, liveCharts, renderedFrom, arg, ret>>

\* new Date() in setupDateFilter
Todays == {[day |-> DaysFromCivil(2021, 6, 15), ms |-> 12 * 3600000]}

\* the earliest / latest of the parsed dates (dates[0], dates[length - 1]
\* of the sorted list)
Earliest(dates) == CHOOSE a \in Range(dates) : \A b \in Range(dates) : DateLessEq(a, b)
Latest(dates) == CHOOSE a \in Range(dates) : \A b \in Range(dates) : DateLessEq(b, a)

\* reader.onload of one FileReader: parseCSV(e.target.result), that is the
\* assignment of this.csvData, detectDateColumn, populateColumnSelect,
\* showControls and setupDateFilter.
parseCSV(csvText) ==
    /\ BagIn(csvText, reads)
    /\ reads' = reads (-) SetToBag({csvText})
    /\ LET csv == Some(ParseCSVText(csvText))
           dc  == detectDateColumn(csv[1].headers, dateColumn)
           parsed == [i \in 1..Len(csv[1].data) |->
                         parseDate(Lookup(csv[1].data[i], dc[1]))]
           found  == SelectSeq(parsed, LAMBDA date : date # None)
           dates  == [i \in 1..Len(found) |-> found[i][1]]
       IN  /\ csvData' = csv
           /\ dateColumn' = dc
           \* populateColumnSelect reads the inputs as they are now
           /\ options' = NumericHeaders(csv, dc, dateFrom, dateTo)
           /\ selected' = <<>>
           \* setupDateFilter
           /\ IF dc = None
              THEN UNCHANGED <<dateFrom, dateTo>>
              ELSE IF Len(dates) > 0
              THEN /\ dateFrom' = formatDateForInput(Earliest(dates))
                   /\ dateTo' = formatDateForInput(Latest(dates))
              ELSE \E today \in Todays :
                     /\ dateFrom' = formatDateForInput(today)
                     /\ dateTo' = formatDateForInput(today)
    /\ loaded' = Some(csvText)
    /\ UNCHANGED <<chart, lastFile, liveCharts, renderedFrom, arg, ret>>

\* handleColumnChange: the user picks the placeholder or one of the options
handleColumnChange(columnName) ==
    /\ columnName \in {<<>>} \cup Range(options)
    /\ selected' = columnName
    /\ IF columnName # <<>>
       THEN renderChart(columnName, getNumericValues(columnName))
       ELSE hideChart
    /\ UNCHANGED <<csvData, dateColumn, dateFrom, dateTo, options, reads,
                   lastFile, loaded, arg, ret>>

\* the values the user gives the from and to inputs under SpecData
DateInputs ==
    {<<>>, <<"2", "0", "2", "0", "-", "0", "1", "-", "0", "1">>,
     <<"2", "0", "2", "0", "-", "0", "1", "-", "0", "2">>}

\* and under Spec
FewDateInputs == {<<>>, <<"2", "0", "2", "0", "-", "0", "1", "-", "0", "2">>}

\* handleDateFilterChange: the user has changed one of the two inputs, which
\* are on screen once a date column was detected
handleDateFilterChange(input, value) ==
    /\ dateColumn # None
    /\ dateFrom' = IF input = "dateFrom" THEN value ELSE dateFrom
    /\ dateTo' = IF input = "dateTo" THEN value ELSE dateTo
    /\ IF selected # <<>>
       THEN renderChart(selected,
                getNumericValuesOf(csvData, dateColumn, dateFrom', dateTo', selected))
       ELSE UNCHANGED <<chart, liveCharts, renderedFrom>>
    /\ UNCHANGED <<csvData, dateColumn, options, selected, reads, lastFile,
                   loaded, arg, ret>>

\* handleLabelChange: the user has typed a scale label; the labels are drawn
\* by a plugin and are no part of the chart's data
handleLabelChange ==
    /\ selected # <<>>
    /\ renderChart(selected, getNumericValues(selected))
    /\ UNCHANGED <<csvData, dateColumn, dateFrom, dateTo, options, selected,
                   reads, lastFile, loaded, arg, ret>>

(***************************************************************************)
(* The files of the model.                                                 *)
(***************************************************************************)
RECURSIVE JoinLines(_)
JoinLines(lines) ==
    IF Len(lines) = 0 THEN <<>>
    ELSE IF Len(lines) = 1 THEN lines[1]
    ELSE lines[1] \o <<"\n">> \o JoinLines(Tail(lines))

\* Spec: three files of different shapes (a quoted field and a final line
\* break; CR LF line ends; no date column, a repeated header, a line with
\* too few and one with too many fields)
Files ==
    {<<"D", "a", "t", "u", "m", ",", "a", "\n", "0", "1", ".", "0", "1", ".", "2", "0", "2", "0", ",", "1", "\n", "\"", "0", "2", ".", "0", "1", ".", "2", "0", "2", "0", ",", " ", "1", "0", ":", "3", "0", "\"", ",", "2", "\n">>,
     <<"d", "a", "t", "e", ",", "b", "\r", "\n", "0", "5", ".", "0", "3", ".", "2", "0", "2", "1", ",", "3", "\r", "\n", "0", "6", ".", "0", "3", ".", "2", "0", "2", "1", ",", "x", "\r", "\n">>,
     <<"a", ",", "b", ",", "a", "\n", "1", "\n", "2", ",", "3", ",", "z", ",", "w">>}

\* SpecData: a date column and a value column
DateHeaderLine == <<"D", "a", "t", "u", "m", ",", "a">>
PlainHeaderLine == <<"d", "a", "y", ",", "a">>

SequenceRows ==
    <<<<"0", "1", ".", "0", "1", ".", "2", "0", "2", "0", ",", "1">>,
      <<"\"", "0", "2", ".", "0", "1", ".", "2", "0", "2", "0", ",", " ", "1", "0", ":", "3", "0", "\"", ",", "2">>,
      <<"0", "3", ".", "0", "1", ".", "2", "0", "2", "0", ",", "1", ".", "5">>,
      <<"0", "2", ".", "0", "1", ".", "2", "0", "2", "0", ",", "x">>,
      <<"x", ",", "5">>,
      <<"0", "1", ".", "0", "1", ".", "2", "0", "2", "0", ",", "1", "2", "a">>>>

ClassifyRows ==
    <<<<"0", "1", ".", "0", "1", ".", "2", "0", "2", "0", ",", "1">>,
      <<"0", "1", ".", "0", "1", ".", "2", "0", "2", "0", ",", "x">>,
      <<"0", "1", ".", "0", "1", ".", "2", "0", "2", "0", ",", "-">>,
      <<"0", "2", ".", "0", "1", ".", "2", "0", "2", "0", ",", "x">>,
      <<"0", "1", ".", "0", "1", ".", "2", "0", "2", "0", ",">>>>

\* every sequence of at most MaxDataRows of the SequenceRows
SequenceFiles ==
    {JoinLines(<<DateHeaderLine>> \o [i \in 1..Len(ks) |-> SequenceRows[ks[i]]]) \o <<"\n">> :
        ks \in SeqsUpTo(1..Len(SequenceRows), MaxDataRows)}

\* every combination (in one order) of at most MaxClassifyRows of the
\* ClassifyRows, under a date header and under a header that names no date
ClassifyFiles ==
    {JoinLines(<<h>> \o [i \in 1..Len(ks) |-> ClassifyRows[ks[i]]]) \o <<"\n">> :
        h \in {DateHeaderLine, PlainHeaderLine},
        ks \in {s \in SeqsUpTo(1..Len(ClassifyRows), MaxClassifyRows) :
                   \A i \in 1..(Len(s) - 1) : s[i] <= s[i + 1]}}

DataFiles == SequenceFiles \cup ClassifyFiles

(***************************************************************************)
(* Spec: any sequence of file selections, loads in any order, and user     *)
(* input.  SpecData: one file of DataFiles is loaded, then user input.     *)
(***************************************************************************)
Init ==
    /\ VisualizerInit
    /\ arg = None
    /\ ret = None

Next ==
    \/ \E text \in Files : handleFileSelect(text)
    \/ \E csvText \in BagToSet(reads) : parseCSV(csvText)
    \/ \E columnName \in {<<>>} \cup Range(options) : handleColumnChange(columnName)
    \/ \E input \in {"dateFrom", "dateTo"}, value \in FewDateInputs :
           handleDateFilterChange(input, value)
    \/ handleLabelChange

Spec == Init /\ [][Next]_vars

NextData ==
    \/ \E text \in DataFiles : lastFile = None /\ handleFileSelect(text)
    \/ \E csvText \in BagToSet(reads) : parseCSV(csvText)
    \/ \E columnName \in {<<>>} \cup Range(options) : handleColumnChange(columnName)
    \/ \E input \in {"dateFrom", "dateTo"}, value \in DateInputs :
           handleDateFilterChange(input, value)
    \/ handleLabelChange

SpecData == Init /\ [][NextData]_vars

(***************************************************************************)
(* Claims about the loading of files (Spec).                               *)
(***************************************************************************)
\* the lines of a file's text, the white space around the text (so its
\* final line break) set aside
FileLines(text) == Split(Trim(text), "\n")

HasDuplicates(seq) == \E i, j \in 1..Len(seq) : i < j /\ seq[i] = seq[j]

OccursOnce(seq, i) == \A j \in 1..Len(seq) : seq[j] = seq[i] => j = i

\* C6: after parseCSV the dataset holds the headers of the file's first
\* line and one record per following line, in file order; every record has
\* exactly the header names as keys; under a header it holds the line's
\* field at the header's position, or the empty string when the line has no
\* such field; fields beyond the headers are in no record.  The dataset is
\* that of the new file alone.
C6_DatasetOfTheFile ==
    loaded # None =>
        LET lines   == FileLines(loaded[1])
            headers == parseCSVLine(lines[1])
        IN  /\ csvData # None
            /\ csvData[1].headers = headers
            /\ Len(csvData[1].data) = Len(lines) - 1
            /\ \A i \in 1..Len(csvData[1].data) :
                 LET row    == csvData[1].data[i]
                     fields == parseCSVLine(lines[i + 1])
                 IN  /\ DOMAIN row = Range(headers)
                     /\ \A j \in 1..Len(headers) :
                          OccursOnce(headers, j) =>
                              row[headers[j]] =
                                  IF j <= Len(fields) THEN fields[j] ELSE <<>>
                     /\ \A key \in DOMAIN row :
                          row[key] \in Range(fields) \cup {<<>>}

\* a file with a short and a long line was loaded after a file with a date
\* column (this.dateColumn is set by no other file)
C6_Witness ==
    /\ loaded # None
    /\ csvData # None
    /\ dateColumn # None
    /\ dateColumn[1] \notin Range(csvData[1].headers)
    /\ \E i \in 1..Len(csvData[1].data) :
         Len(parseCSVLine(FileLines(loaded[1])[i + 1])) > Len(csvData[1].headers)
    /\ \E i \in 1..Len(csvData[1].data) :
         Len(parseCSVLine(FileLines(loaded[1])[i + 1])) < Len(csvData[1].headers)

\* C7: once no read is under way, the dataset is the one parsed from the
\* most recently selected file.
C7_DatasetOfLastSelection ==
    (BagCardinality(reads) = 0 /\ lastFile # None) =>
        /\ csvData # None
        /\ csvData[1].headers = parseCSVLine(FileLines(lastFile[1])[1])
        /\ Len(csvData[1].data) = Len(FileLines(lastFile[1])) - 1
        /\ loaded = lastFile

\* C8: the header list of a loaded dataset has no duplicate name, and every
\* field of a data line that stands under a header is in the line's record
\* under that header.
C8_HeadersUnique ==
    loaded # None =>
        /\ ~HasDuplicates(csvData[1].headers)
        /\ \A i \in 1..Len(csvData[1].data) :
             LET fields == parseCSVLine(FileLines(loaded[1])[i + 1])
             IN  \A j \in 1..Len(csvData[1].headers) :
                    j <= Len(fields) =>
                        csvData[1].data[i][csvData[1].headers[j]] = fields[j]

RECURSIVE SumOfCounts(_, _)
SumOfCounts(f, keys) ==
    IF keys = {} THEN 0
    ELSE LET key == CHOOSE x \in keys : TRUE
         IN  f[key] + SumOfCounts(f, keys \ {key})

\* C12: the detected date field is unset or names a header of the loaded
\* dataset, and it is unset (date filtering inactive) once the loaded file
\* has no date column.
C12_DateColumnOfDataset ==
    csvData # None =>
        /\ dateColumn # None => dateColumn[1] \in Range(csvData[1].headers)
        /\ Range(csvData[1].headers) \cap Range(dateColumnNames) = {}
               => dateColumn = None

\* a step in which a read delivers its onload and parseCSV runs
FileLoaded == BagCardinality(reads') < BagCardinality(reads)

\* C13: after every file load the options of the column select are exactly
\* the headers that isNumericColumn classifies as numeric under the from and
\* to inputs as they stand when the load has finished.
C13_OptionsUnderShownRange ==
    [][FileLoaded =>
          options' = NumericHeaders(csvData', dateColumn', dateFrom', dateTo')]_vars

\* C14: the Chart instances created and not yet destroyed number 1 when the
\* chart handle is set and 0 when it is null.
C14_OneLiveChart ==
    liveCharts = (IF chart # None THEN 1 ELSE 0)

\* a chart that was drawn again over an existing one (a file with a date
\* column, a column selected, a date input changed) and is the only one
C14_Witness ==
    /\ chart # None
    /\ liveCharts = 1
    /\ selected # <<>>
    /\ loaded # None
    /\ dateFrom # <<>>
    /\ Len(chart[1].values) < Len(csvData[1].data)

\* C15: a live chart was computed from the dataset that is loaded now.
C15_ChartOfLoadedDataset ==
    chart # None => renderedFrom = csvData

(***************************************************************************)
(* Claims about classification, date filter and statistics (SpecData).     *)
(***************************************************************************)
\* the string parses as a finite number: parseFloat yields a number and the
\* whole string converts to a finite number
ParsesAsFiniteNumber(str) ==
    /\ isFiniteNumber(parseFloat(Some(str)))
    /\ isFiniteNumber(ToNumber(str))

\* the indices of the rows whose value under columnName is not in blanks
ValueRows(rows, columnName, blanks) ==
    {i \in 1..Len(rows) :
        /\ columnName \in DOMAIN rows[i]
        /\ rows[i][columnName] \notin blanks}

NumericRows(rows, columnName, blanks) ==
    {i \in ValueRows(rows, columnName, blanks) :
        ParsesAsFiniteNumber(rows[i][columnName])}

\* at least one value, and at least 80% of the values numeric
MostlyNumeric(rows, columnName, blanks) ==
    /\ ValueRows(rows, columnName, blanks) # {}
    /\ 5 * Cardinality(NumericRows(rows, columnName, blanks))
          >= 4 * Cardinality(ValueRows(rows, columnName, blanks))

SomeColumn == <<"a">>

\* C1 as stated: isNumericColumn(c) is true exactly when at least one value
\* of the column is not the empty string and at least 80% of those values
\* parse as finite numbers; it is false when no dataset is loaded.
C1_AsStated ==
    IF csvData = None THEN ~isNumericColumn(SomeColumn)
    ELSE \A c \in Range(csvData[1].headers) :
            isNumericColumn(c) <=> MostlyNumeric(csvData[1].data, c, {<<>>})

\* C1 (amended): isNumericColumn(c) is true exactly when, among the rows
\* that pass the active date filter, at least one value of the column is
\* neither the empty string nor "-" and at least 80% of those values parse
\* as finite numbers; it is false when no dataset is loaded.
C1_IsNumericColumn ==
    IF csvData = None THEN ~isNumericColumn(SomeColumn)
    ELSE \A c \in Range(csvData[1].headers) :
            isNumericColumn(c) <=> MostlyNumeric(getFilteredData, c, {<<>>, <<"-">>})

\* a column with five values of which exactly four are numeric, next to a
\* "-", classified numeric
C1_Witness ==
    /\ csvData # None
    /\ \E c \in Range(csvData[1].headers) :
         /\ isNumericColumn(c)
         /\ Cardinality(ValueRows(getFilteredData, c, {<<>>, <<"-">>})) = 5
         /\ Cardinality(NumericRows(getFilteredData, c, {<<>>, <<"-">>})) = 4
         /\ \E i \in 1..Len(getFilteredData) : getFilteredData[i][c] = <<"-">>

\* <<year, month, day>> of an input value YYYY-MM-DD
InputDay(value) ==
    <<DigitsValue(SubSeq(value, 1, 4)), DigitsValue(SubSeq(value, 6, 7)),
      DigitsValue(SubSeq(value, 9, 10))>>

\* <<year, month, day>> of a Date
DayOf(date) == <<getFullYear(date), getMonth(date) + 1, getDate(date)>>

\* a is the same day as b or an earlier one
NotAfter(a, b) ==
    \/ a[1] < b[1]
    \/ a[1] = b[1] /\ a[2] < b[2]
    \/ a[1] = b[1] /\ a[2] = b[2] /\ a[3] <= b[3]

\* the row's date parses and lies on a day from the from day to the to day
DatedWithin(row, from, to) ==
    LET d == parseDate(Lookup(row, dateColumn[1]))
    IN  /\ d # None
        /\ NotAfter(InputDay(from), DayOf(d[1]))
        /\ NotAfter(DayOf(d[1]), InputDay(to))

FilterActive == csvData # None /\ dateColumn # None /\ dateFrom # <<>> /\ dateTo # <<>>

\* C2: with a date column detected and both inputs set, getFilteredData is
\* the rows, in their order, whose date parses to a day d with
\* from <= d <= to, both days included whatever the row's time of day; a
\* from day after the to day leaves no row.
C2_DateRangeFilter ==
    FilterActive =>
        /\ getFilteredData =
               SelectSeq(csvData[1].data, LAMBDA row : DatedWithin(row, dateFrom, dateTo))
        /\ ~NotAfter(InputDay(dateFrom), InputDay(dateTo)) => getFilteredData = <<>>

HasTimeOfDay(str) == \E i \in 1..Len(str) : str[i] = ":"

\* the filter keeps a row dated on the to day with a time of day and one
\* dated on the from day, and drops a row whose date does not parse
C2_Witness ==
    /\ FilterActive
    /\ dateFrom # dateTo
    /\ \E i \in 1..Len(getFilteredData) :
         LET cell == getFilteredData[i][dateColumn[1]]
         IN  HasTimeOfDay(cell) /\ DayOf(parseDate(Some(cell))[1]) = InputDay(dateTo)
    /\ \E i \in 1..Len(getFilteredData) :
         DayOf(parseDate(Lookup(getFilteredData[i], dateColumn[1]))[1]) = InputDay(dateFrom)
    /\ \E i \in 1..Len(csvData[1].data) :
         parseDate(Lookup(csvData[1].data[i], dateColumn[1])) = None

\* the numbers of the cells of column c, in row order, of the rows that
\* parse to a finite number
FiniteNumbersOf(rows, c) ==
    LET parsed == [i \in 1..Len(rows) |-> parseFloat(Lookup(rows[i], c))]
    IN  SelectSeq(parsed, LAMBDA v : v.k = "num")

Times(a, b) == Rat(a.n * b.n, a.d * b.d)

RECURSIVE Total(_, _)
\* the sum of values[1..n]
Total(values, n) ==
    IF n = 0 THEN Num(0) ELSE Plus(Total(values, n - 1), values[n])

CountBelow(values, v) == Cardinality({i \in 1..Len(values) : Less(values[i], v)})
CountUpTo(values, v) == Cardinality({i \in 1..Len(values) : LessEq(values[i], v)})

\* v is the element at position k (from 1) of the values in ascending order
IsKthSmallest(values, v, k) ==
    /\ v \in Range(values)
    /\ CountBelow(values, v) < k
    /\ CountUpTo(values, v) >= k

IsMedianOf(values, median) ==
    LET n == Len(values)
    IN  IF n = 0 THEN median = Num(0)
        ELSE IF n % 2 = 1
        THEN IsKthSmallest(values, median, (n + 1) \div 2)
        ELSE \E lo, hi \in Range(values) :
                /\ IsKthSmallest(values, lo, n \div 2)
                /\ IsKthSmallest(values, hi, n \div 2 + 1)
                /\ Times(median, Num(2)) = Plus(lo, hi)

\* C3: the chart's average and median are those of the numeric values of
\* the selected column in the rows that pass the date filter: the average is
\* their sum divided by their count, the median the middle element in
\* ascending order (odd count) or the mean of the two middle elements (even
\* count), both 0 without a numeric value; and the list of values is, after
\* calculateStats, the list it was given.
C3_AverageAndMedian ==
    chart # None =>
        LET values == FiniteNumbersOf(getFilteredData, selected)
        IN  /\ chart[1].column = selected
            /\ chart[1].values = values
            /\ IF Len(values) = 0 THEN chart[1].average = Num(0)
               ELSE Times(chart[1].average, Num(Len(values))) = Total(values, Len(values))
            /\ IsMedianOf(values, chart[1].median)

\* a chart of an even number of values, not in ascending order, with two
\* different middle elements, drawn while the date filter drops a numeric row
C3_Witness ==
    /\ chart # None
    /\ Len(chart[1].values) = 2
    /\ Less(chart[1].values[2], chart[1].values[1])
    /\ chart[1].median \notin Range(chart[1].values)
    /\ Len(FiniteNumbersOf(csvData[1].data, selected)) > Len(chart[1].values)

\* C10: a cell of the selected column that does not parse as a finite number
\* adds nothing to the statistics or the distribution, the value of every
\* other row that passes the date filter is counted once, and the chart is
\* drawn all the same.
C10_MalformedValueSkipped ==
    /\ selected # <<>> => chart # None
    /\ chart # None =>
        LET rows    == getFilteredData
            finite  == {i \in 1..Len(rows) :
                           parseFloat(Lookup(rows[i], selected)).k = "num"}
        IN  /\ Len(chart[1].values) = Cardinality(finite)
            /\ SumOfCounts(chart[1].distribution, DOMAIN chart[1].distribution)
                   = Cardinality(finite)
            /\ \A i \in finite :
                 LET v == parseFloat(Lookup(rows[i], selected))
                 IN  /\ v \in DOMAIN chart[1].distribution
                     /\ chart[1].distribution[v] =
                            Cardinality({j \in finite :
                                parseFloat(Lookup(rows[j], selected)) = v})

\* a chart drawn from rows of which one holds a malformed value and two
\* hold numbers
C10_Witness ==
    /\ chart # None
    /\ Len(chart[1].values) >= 2
    /\ \E i \in 1..Len(getFilteredData) :
         parseFloat(Lookup(getFilteredData[i], selected)).k = "NaN"

RECURSIVE SumOfBars(_, _)
\* the sum of the bar heights data[1..n]
SumOfBars(data, n) == IF n = 0 THEN 0 ELSE SumOfBars(data, n - 1) + data[n]

\* C16: the labels of the chart run in steps of 1 from min(dataMin, 1) to
\* max(dataMax, 10), the labels 1..10 are among them, and the bar heights
\* sum to the number of numeric values of the filtered column.
C16_AxisCoversValues ==
    chart # None =>
        LET labels == chart[1].labels
            values == chart[1].values
            lowest  == IF \E i \in 1..Len(values) : Less(values[i], Num(1))
                       THEN MathMin(values) ELSE Num(1)
            highest == IF \E i \in 1..Len(values) : Less(Num(10), values[i])
                       THEN MathMax(values) ELSE Num(10)
        IN  /\ Len(labels) >= 1
            /\ labels[1] = lowest
            /\ labels[Len(labels)] = highest
            /\ \A i \in 1..(Len(labels) - 1) : labels[i + 1] = Plus(labels[i], Num(1))
            /\ \A k \in 1..10 : Num(k) \in Range(labels)
            /\ SumOfBars(chart[1].data, Len(chart[1].data)) = Len(values)

\* the row's date, under the date field as it is after the step, parses
ParsesAfter(row) == parseDate(Lookup(row, dateColumn'[1])) # None

\* C17: a load of a file whose date column holds a date that parses sets the
\* from input to the earliest and the to input to the latest parsed day, and
\* the filter then keeps exactly the rows whose date parses; and in every
\* state with a dataset and no date field, or with an empty from or to
\* input, getFilteredData is the list of all rows.
C17_RangeOfTheData ==
    /\ [][(/\ FileLoaded
           /\ dateColumn' # None
           /\ \E i \in 1..Len(csvData'[1].data) : ParsesAfter(csvData'[1].data[i]))
          => LET rows == csvData'[1].data
                 days == {DayOf(parseDate(Lookup(rows[i], dateColumn'[1]))[1]) :
                             i \in {j \in 1..Len(rows) : ParsesAfter(rows[j])}}
             IN  /\ Len(dateFrom') = 10 /\ Len(dateTo') = 10
                 /\ InputDay(dateFrom') \in days
                 /\ InputDay(dateTo') \in days
                 /\ \A d \in days : NotAfter(InputDay(dateFrom'), d)
                                      /\ NotAfter(d, InputDay(dateTo'))
                 /\ getFilteredDataOf(rows, dateColumn', dateFrom', dateTo')
                        = SelectSeq(rows, ParsesAfter)]_vars
    /\ []((csvData # None /\ (dateColumn = None \/ dateFrom = <<>> \/ dateTo = <<>>))
             => getFilteredData = csvData[1].data)

\* a file was loaded that holds two different days and a row whose date does
\* not parse, and the inputs are as the load set them
C17_Witness ==
    /\ loaded # None
    /\ dateColumn # None
    /\ dateFrom # <<>> /\ dateTo # <<>> /\ dateFrom # dateTo
    /\ chart = None /\ selected = <<>>
    /\ Len(getFilteredData) = 2
    /\ Len(csvData[1].data) = 3
    /\ \E i \in 1..3 : parseDate(Lookup(csvData[1].data[i], dateColumn[1])) = None

\* C18: for every cell of the loaded dataset, getNumericValues keeps the
\* cell's value (its parseFloat passes the filter of getNumericValues)
\* exactly when isNumericColumn counts the cell as numeric (it passes the
\* non-empty filter and the numeric filter of isNumericColumn).
C18_SameNumericTest ==
    csvData # None =>
        \A i \in 1..Len(csvData[1].data) : \A c \in Range(csvData[1].headers) :
            LET cell == Lookup(csvData[1].data[i], c)
            IN  IsFiniteValue(parseFloat(cell))
                    <=> (IsNonEmptyValue(cell) /\ IsNumericValue(cell))

(***************************************************************************)
(* SpecLine: parseCSVLine applied to every line over LineChars of at most  *)
(* MaxLineLen characters.                                                  *)
(***************************************************************************)
LineChars == {"a", ",", "\"", " "}

InitLine ==
    /\ VisualizerInit
    /\ arg \in SeqsUpTo(LineChars, MaxLineLen)
    /\ ret = None

CallParseCSVLine ==
    /\ ret = None
    /\ ret' = Some(parseCSVLine(arg))
    /\ UNCHANGED <<arg, visualizerVars>>

NextLine == CallParseCSVLine

SpecLine == InitLine /\ [][NextLine]_vars

\* The commas of line that lie outside double quotes: those preceded by an
\* even number of quote characters.
OutsideCommas(line) ==
    {i \in 1..Len(line) :
        /\ line[i] = ","
        /\ CountOf(SubSeq(line, 1, i - 1), "\"") % 2 = 0}

InsideCommas(line) ==
    {i \in 1..Len(line) : line[i] = ","} \ OutsideCommas(line)

\* C5: parseCSVLine returns one field more than there are commas outside
\* double quotes, every comma inside quotes is kept in a field, and no field
\* holds a quote character.
C5_SplitsAtOutsideCommas ==
    ret # None =>
        LET fields == ret[1]
        IN  /\ Len(fields) = Cardinality(OutsideCommas(arg)) + 1
            /\ CountOf(Concat(fields), ",") = Cardinality(InsideCommas(arg))
            /\ CountOf(Concat(fields), "\"") = 0

C5_Witness ==
    /\ ret # None
    /\ InsideCommas(arg) # {}
    /\ OutsideCommas(arg) # {}

(***************************************************************************)
(* SpecValues: getDistribution applied to every list of at most MaxValues  *)
(* numbers of SampleNumbers.                                               *)
(***************************************************************************)
SampleNumbers == {Num(1), Num(2), Rat(3, 2)}

InitValues ==
    /\ VisualizerInit
    /\ arg \in SeqsUpTo(SampleNumbers, MaxValues)
    /\ ret = None

CallGetDistribution ==
    /\ ret = None
    /\ ret' = Some(getDistribution(arg))
    /\ UNCHANGED <<arg, visualizerVars>>

NextValues == CallGetDistribution

SpecValues == InitValues /\ [][NextValues]_vars

Occurrences(values, v) == Cardinality({i \in 1..Len(values) : values[i] = v})

\* C4: getDistribution(values) has exactly the distinct values of the list
\* as keys, maps each to its number of occurrences, and its counts sum to
\* the length of the list.
C4_DistributionCounts ==
    ret # None =>
        LET distribution == ret[1]
        IN  /\ DOMAIN distribution = {arg[i] : i \in 1..Len(arg)}
            /\ \A v \in DOMAIN distribution :
                   distribution[v] = Occurrences(arg, v)
            /\ SumOfCounts(distribution, DOMAIN distribution) = Len(arg)

C4_Witness ==
    /\ ret # None
    /\ \E v \in DOMAIN ret[1] : ret[1][v] >= 2
    /\ Cardinality(DOMAIN ret[1]) >= 2

(***************************************************************************)
(* SpecDate: parseDate applied to undefined, to malformed strings and to   *)
(* every D.M.Y string, with and without a time of day, built from the      *)
(* sample day, month and year spellings.                                   *)
(***************************************************************************)
DayStrs == {<<"1">>, <<"0", "1">>, <<"2", "9">>, <<"3", "0">>, <<"3", "1">>,
            <<"0">>, <<"3", "2">>}
MonthStrs == {<<"1">>, <<"0", "2">>, <<"2">>, <<"0", "4">>, <<"1", "2">>,
              <<"1", "3">>, <<"0">>}
YearStrs == {<<"2", "0", "2", "0">>, <<"2", "0", "2", "1">>, <<"0", "0", "9", "9">>}
TimeSuffixes == {<<>>, <<",", " ", "1", "0", ":", "3", "0">>}

DottedDates ==
    {d \o <<".">> \o m \o <<".">> \o y \o t :
        d \in DayStrs, m \in MonthStrs, y \in YearStrs, t \in TimeSuffixes}

OtherStrings ==
    {<<>>,
     <<"x">>,
     <<"1", ".", "2", ".", "2", "0">>,
     <<"1", "2", ".", "2", "0", "2", "0">>,
     <<"2", "0", "2", "0", "-", "0", "1", "-", "0", "2">>,
     <<"x", "1", ".", "2", ".", "2", "0", "2", "0">>,
     <<"'", "1", ".", "2", ".", "2", "0", "2", "0", "'">>,
     <<"1", ".", "2", ".", "2", "0", "2", "0", "1">>,
     <<"1", "2", "3", ".", "4", ".", "2", "0", "2", "0">>}

InitDate ==
    /\ VisualizerInit
    /\ arg \in {None} \cup {Some(t) : t \in DottedDates \cup OtherStrings}
    /\ ret = None

CallParseDate ==
    /\ ret = None
    /\ ret' = Some(parseDate(arg))
    /\ UNCHANGED <<arg, visualizerVars>>

NextDate == CallParseDate

SpecDate == InitDate /\ [][NextDate]_vars

\* HH:MM
IsTimeOfDay(s) ==
    /\ Len(s) = 5
    /\ s[3] = ":"
    /\ \A i \in {1, 2, 4, 5} : s[i] \in Digits

\* <<[day, month, year]>> when s is D.M.YYYY or D.M.YYYY, HH:MM with one or
\* two digits for D and for M; <<>> when s is not of that form.
DateForm(s) ==
    LET d     == DigitRun(s)
        s2    == Drop(s, Len(d) + 1)
        m     == DigitRun(s2)
        s3    == Drop(s2, Len(m) + 1)
        y     == DigitRun(s3)
        rest  == Drop(s3, Len(y))
    IN  IF /\ Len(d) \in {1, 2} /\ HasDot(s, Len(d) + 1)
           /\ Len(m) \in {1, 2} /\ HasDot(s2, Len(m) + 1)
           /\ Len(y) = 4
           /\ \/ rest = <<>>
              \/ /\ Len(rest) = 7
                 /\ SubSeq(rest, 1, 2) = <<",", " ">>
                 /\ IsTimeOfDay(Drop(rest, 2))
        THEN Some([day |-> DigitsValue(d), month |-> DigitsValue(m),
                   year |-> DigitsValue(y)])
        ELSE None

IsLeapYear(y) == y % 4 = 0 /\ (y % 100 # 0 \/ y % 400 = 0)

DaysInMonth(y, m) ==
    IF m = 2 THEN (IF IsLeapYear(y) THEN 29 ELSE 28)
    ELSE IF m \in {4, 6, 9, 11} THEN 30 ELSE 31

\* the Date has the calendar day, month and year of f
IsTheDate(date, f) ==
    /\ date # None
    /\ getDate(date[1]) = f.day
    /\ getMonth(date[1]) + 1 = f.month
    /\ getFullYear(date[1]) = f.year

\* s holds, somewhere, one or two digits, a dot, one or two digits, a dot
\* and four digits
ContainsDottedDate(s) ==
    \E i \in 1..Len(s), n1 \in {1, 2}, n2 \in {1, 2} :
        /\ HasDigits(s, i, n1) /\ HasDot(s, i + n1)
        /\ HasDigits(s, i + n1 + 1, n2) /\ HasDot(s, i + n1 + n2 + 1)
        /\ HasDigits(s, i + n1 + n2 + 2, 4)

\* C9 as stated: a date for every string of the form with day in 1..31 and
\* month in 1..12, null for every other string and for undefined.
C9_AsStated ==
    ret # None =>
        IF arg = None \/ arg = Some(<<>>) THEN ret[1] = None
        ELSE LET f == DateForm(arg[1])
             IN  IF f = None THEN ret[1] = None
                 ELSE (f[1].day \in 1..31 /\ f[1].month \in 1..12)
                          => IsTheDate(ret[1], f[1])

\* What does hold of C9: parseDate returns the date with that day, month
\* and year for every string of the form whose month is in 1..12, whose day
\* exists in that month of that year and whose year is at least 0100; it
\* returns null for undefined, for the empty string and for every string
\* that, quote characters removed, holds no digits.digits.dddd pattern.
C9_ParseDate ==
    ret # None =>
        IF arg = None \/ arg = Some(<<>>) THEN ret[1] = None
        ELSE LET f == DateForm(arg[1])
             IN  /\ ContainsDottedDate(RemoveQuotes(arg[1])) \/ ret[1] = None
                 /\ (/\ f # None
                     /\ f[1].month \in 1..12
                     /\ f[1].year >= 100
                     /\ f[1].day \in 1..DaysInMonth(f[1].year, f[1].month))
                        => IsTheDate(ret[1], f[1])

C9_Witness ==
    /\ ret # None
    /\ arg # None
    /\ DateForm(arg[1]) # None
    /\ DateForm(arg[1])[1] = [day |-> 29, month |-> 2, year |-> 2020]
    /\ Len(arg[1]) > 10
    /\ IsTheDate(ret[1], [day |-> 29, month |-> 2, year |-> 2020])

(***************************************************************************)
(* The vertical-line plugin's getXPositionForValue, on the labels that     *)
(* renderChart builds and a category scale that puts the tick of index i   *)
(* (from 0) of n labels at the centre of the i-th of n equal bands of the  *)
(* scale.  A label is held as the number that its string denotes: a number *)
(* and its string determine each other.                                    *)
(***************************************************************************)
Minus(a, b) == Plus(a, Negate(b))
Multiply(a, b) == Rat(a.n * b.n, a.d * b.d)

\* xScale.getPixelForValue(index), index counted from 0
getPixelForValue(xScale, count, index) ==
    Plus(Num(xScale.left), Rat(xScale.width * (2 * index + 1), 2 * count))

\* labels.indexOf(targetValue.toString()): the first position (from 0) of
\* the target among the labels, -1 when it is none of them
indexOf(labels, target) ==
    IF \E i \in 1..Len(labels) : labels[i] = target
    THEN (CHOOSE i \in 1..Len(labels) :
             /\ labels[i] = target
             /\ \A j \in 1..(i - 1) : labels[j] # target) - 1
    ELSE -1

RECURSIVE ClosestFrom(_, _, _, _)
\* the loop over numericLabels from index i (from 0): leftIndex is the last
\* index seen whose label is <= target, rightIndex the first whose label is
\* >= target, where the loop ends
ClosestFrom(numericLabels, target, i, leftIndex) ==
    IF i >= Len(numericLabels)
    THEN [leftIndex |-> leftIndex, rightIndex |-> -1]
    ELSE LET left == IF LessEq(numericLabels[i + 1], target) THEN i ELSE leftIndex
         IN  IF LessEq(target, numericLabels[i + 1])
             THEN [leftIndex |-> left, rightIndex |-> i]
             ELSE ClosestFrom(numericLabels, target, i + 1, left)

\* getXPositionForValue without the interpolation: the left label's pixel
getXPositionForValueLeftPixel(labels, xScale, targetValue) ==
    LET exactIndex == indexOf(labels, targetValue)
        closest    == ClosestFrom(labels, targetValue, 0, -1)
    IN  IF exactIndex # -1
        THEN Some(getPixelForValue(xScale, Len(labels), exactIndex))
        ELSE IF closest.leftIndex = -1 /\ closest.rightIndex = -1 THEN None
        ELSE Some(getPixelForValue(xScale, Len(labels),
                      IF closest.leftIndex = -1 THEN closest.rightIndex
                      ELSE closest.leftIndex))

\* getXPositionForValue(targetValue): <<>> for null
getXPositionForValue(labels, xScale, targetValue) ==
    LET exactIndex == indexOf(labels, targetValue)
        closest    == ClosestFrom(labels, targetValue, 0, -1)
        leftIndex  == closest.leftIndex
        rightIndex == closest.rightIndex
        halfBand   == Rat(xScale.width, 2 * Len(labels))
    IN  IF exactIndex # -1
        THEN Some(getPixelForValue(xScale, Len(labels), exactIndex))
        ELSE IF leftIndex = -1 /\ rightIndex # -1
        THEN Some(Minus(getPixelForValue(xScale, Len(labels), rightIndex), halfBand))
        ELSE IF rightIndex = -1 /\ leftIndex # -1
        THEN Some(Plus(getPixelForValue(xScale, Len(labels), leftIndex), halfBand))
        ELSE IF leftIndex # -1 /\ rightIndex # -1
        THEN LET leftX    == getPixelForValue(xScale, Len(labels), leftIndex)
                 rightX   == getPixelForValue(xScale, Len(labels), rightIndex)
                 leftVal  == labels[leftIndex + 1]
                 rightVal == labels[rightIndex + 1]
             IN  IF leftVal = rightVal THEN Some(leftX)
                 ELSE Some(Plus(leftX,
                          Multiply(Minus(rightX, leftX),
                                   DividedBy(Minus(targetValue, leftVal),
                                             Minus(rightVal, leftVal)))))
        ELSE None

(***************************************************************************)
(* SpecAxis: getXPositionForValue applied to two statistics on every axis  *)
(* that renderChart builds from a range start of AxisStarts and a range    *)
(* end of AxisEnds.                                                        *)
(***************************************************************************)
MaxAxisEnd == 11

AxisStarts == {Num(1), Num(0), Rat(1, 2), Num(-1)}
AxisEnds == {Rat(k, 2) : k \in 20..(2 * MaxAxisEnd)}
Targets == {Rat(k, 2) : k \in -4..(2 * MaxAxisEnd + 3)}
Scales == {[left |-> 0, width |-> 300], [left |-> 40, width |-> 600]}

InitAxis ==
    /\ VisualizerInit
    /\ arg \in {[labels |-> LabelsFrom(rangeMin, rangeMax), xScale |-> xScale,
                 v |-> v, w |-> w] :
                   rangeMin \in AxisStarts, rangeMax \in AxisEnds,
                   xScale \in Scales, v \in Targets, w \in Targets}
    /\ ret = None

CallGetXPositionForValue ==
    /\ ret = None
    /\ ret' = Some(<<getXPositionForValue(arg.labels, arg.xScale, arg.v),
                     getXPositionForValue(arg.labels, arg.xScale, arg.w)>>)
    /\ UNCHANGED <<arg, visualizerVars>>

NextAxis == CallGetXPositionForValue

SpecAxis == InitAxis /\ [][NextAxis]_vars

\* the pixel of the label at position i (from 1)
LabelPixel(i) == getPixelForValue(arg.xScale, Len(arg.labels), i - 1)

\* C11: on an axis with at least one label getXPositionForValue(v) is not
\* null; it is the label's pixel when v is a label; it is
\* px(L) + (px(R) - px(L)) * (v - L) / (R - L) when v lies strictly between
\* the adjacent labels L < R; and v <= w gives a position for v that is not
\* right of the position for w.
C11_LinearInterpolation ==
    (ret # None /\ Len(arg.labels) >= 1) =>
        LET x == ret[1][1]
            y == ret[1][2]
        IN  /\ x # None /\ y # None
            /\ \A i \in 1..Len(arg.labels) :
                 arg.labels[i] = arg.v => x[1] = LabelPixel(i)
            /\ \A i \in 1..(Len(arg.labels) - 1) :
                 (Less(arg.labels[i], arg.v) /\ Less(arg.v, arg.labels[i + 1])) =>
                     Multiply(Minus(x[1], LabelPixel(i)),
                              Minus(arg.labels[i + 1], arg.labels[i]))
                       = Multiply(Minus(LabelPixel(i + 1), LabelPixel(i)),
                                  Minus(arg.v, arg.labels[i]))
            /\ LessEq(arg.v, arg.w) => LessEq(x[1], y[1])

\* v lies strictly between two labels and w right of the last label
C11_Witness ==
    /\ ret # None
    /\ \E i \in 1..(Len(arg.labels) - 1) :
         Less(arg.labels[i], arg.v) /\ Less(arg.v, arg.labels[i + 1])
    /\ Less(arg.labels[Len(arg.labels)], arg.w)
    /\ Less(ret[1][1][1], ret[1][2][1])

====
